---------------------------- MODULE Spec2Model ----------------------------
(***************************************************************************)
(* A model of noxfile.py: the five nox sessions (test, format, lint, docs, *)
(* generate), the helper lint_per_folder, and the nox runner that drives   *)
(* them.                                                                   *)
(*                                                                         *)
(* What the model takes from nox (the library the file is written for):    *)
(*   - session.install(...) and session.run(...) raise when the external   *)
(*     command exits non-zero; the file has no try/except, so the          *)
(*     exception unwinds every function of the session and the session is  *)
(*     marked failed;                                                      *)
(*   - a session declared with python=[v1, ..., vn] is run once per        *)
(*     version, in declared order, each in its own virtualenv, and the     *)
(*     runner goes on to the next session after a failed one;              *)
(*   - a session function called from another (lint(session)) is an        *)
(*     ordinary Python call on the caller's session object;                *)
(*   - with -r the runner reuses an existing virtualenv, which may still   *)
(*     hold the packages of an earlier run.                                *)
(***************************************************************************)
EXTENDS Integers, Sequences, FiniteSets, TLC

(***************************************************************************)
(* Module-level data                                                       *)
(***************************************************************************)

SOURCE_FILES ==
    << "setup.py", "noxfile.py", "opensearchpy/", "test_opensearchpy/",
       "utils/", "samples/", "benchmarks/", "docs/" >>

\* TestVersions with a fault: the newest version is missing from the list
TestVersions_Five == << "3.6", "3.7", "3.8", "3.9", "3.10" >>

\* @nox.session(python=[...]) of test
TestVersions == << "3.6", "3.7", "3.8", "3.9", "3.10", "3.11" >>

\* @nox.session() without python=: the interpreter nox itself runs on
DefaultPython == "default"

\* The versions the interpreter nox runs on may have: the declared version
\* of format and lint, and another one
HostPythons == { "3.7", "3.11" }

\* Several driver invocations in a row: how many, and how many paths
\* exclude_path_from_linting holds at most when they are followed
MaxRuns == 3

MaxExcluded == 1

\* The functions decorated with @nox.session: what the driver can select
Sessions == { "test", "format", "lint", "docs", "generate" }

\* DeclaredVersions with a fault: format declares another version
DeclaredVersions_FormatOther(task) ==
    CASE task = "test" -> TestVersions
      [] task = "format" -> << "3.8" >>
      [] task = "lint" -> << "3.7" >>
      [] OTHER -> << DefaultPython >>

\* The python= list each session declares
DeclaredVersions(task) ==
    CASE task = "test" -> TestVersions
      [] task = "format" -> << "3.7" >>
      [] task = "lint" -> << "3.7" >>
      [] OTHER -> << DefaultPython >>

SeqToSet(s) == { s[i] : i \in DOMAIN s }

\* The paths exclude_path_from_linting is taken from: every declared
\* location, and one path that is no location
ExcludeCandidates == SeqToSet(SOURCE_FILES) \cup { "build/" }

(***************************************************************************)
(* lint_per_folder: the rule tables and the argument list                  *)
(*                                                                         *)
(* A Python string that the code builds is a sequence of pieces, so that   *)
(* ','.join and the f-string are computed and can be taken apart again.    *)
(***************************************************************************)

default_enable ==
    << "line-too-long", "invalid-name", "pointless-statement",
       "unspecified-encoding", "missing-function-docstring",
       "missing-param-doc", "differing-param-doc" >>

\* override_enable with a fault: the library override names a check that
\* the default does not have
override_enable_AddsCheck ==
    [ p \in { "test_opensearchpy/", "opensearchpy/" } |->
        IF p = "test_opensearchpy/"
        THEN << "line-too-long", "pointless-statement", "unspecified-encoding",
                "missing-param-doc", "differing-param-doc" >>
        ELSE << "line-too-long", "invalid-name", "pointless-statement",
                "unspecified-encoding", "unused-import" >> ]

override_enable ==
    [ p \in { "test_opensearchpy/", "opensearchpy/" } |->
        IF p = "test_opensearchpy/"
        THEN << "line-too-long", "pointless-statement", "unspecified-encoding",
                "missing-param-doc", "differing-param-doc" >>
        ELSE << "line-too-long", "invalid-name", "pointless-statement",
                "unspecified-encoding" >> ]

\* ','.join(names)
RECURSIVE CommaJoin(_)
CommaJoin(names) ==
    IF names = << >> THEN << >>
    ELSE IF Len(names) = 1 THEN << names[1] >>
    ELSE << names[1], "," >> \o CommaJoin(Tail(names))

\* f"--enable={','.join(names)}"
EnableArg(names) == << "--enable=" >> \o CommaJoin(names)

\* ResolveEnable with a fault: the override is added to the default
ResolveEnable_Additive(source_file) ==
    IF source_file \in DOMAIN override_enable
    THEN default_enable \o
         SelectSeq(override_enable[source_file],
                   LAMBDA n : n \notin SeqToSet(default_enable))
    ELSE default_enable

\* ResolveEnable with a fault: the fallback is the library override
ResolveEnable_WrongDefault(source_file) ==
    IF source_file \in DOMAIN override_enable
    THEN override_enable[source_file]
    ELSE override_enable["opensearchpy/"]

\* The if/else of the loop body: which list is joined into --enable
ResolveEnable(source_file) ==
    IF source_file \in DOMAIN override_enable
    THEN override_enable[source_file]
    ELSE default_enable

\* PylintArgs with a fault: one list is shared by the iterations, so the
\* --enable and path arguments of the earlier locations are still in it
PylintArgs_Shared(source_file) ==
    LET idx == CHOOSE i \in DOMAIN SOURCE_FILES : SOURCE_FILES[i] = source_file
        RECURSIVE Appended(_)
        Appended(k) ==
            IF k = 0 THEN << >>
            ELSE Appended(k - 1) \o << EnableArg(ResolveEnable(SOURCE_FILES[k])),
                                       << SOURCE_FILES[k] >> >>
    IN  << << "--disable=all" >>,
           << "--max-line-length=240" >>,
           << "--good-names-rgxs=^[_a-z][_a-z0-9]?$" >>,
           << "--load-plugins" >>,
           << "pylint.extensions.docparams" >> >> \o Appended(idx)

\* The list args that the loop body builds for session.run("pylint", ...)
PylintArgs(source_file) ==
    << << "--disable=all" >>,
       << "--max-line-length=240" >>,
       << "--good-names-rgxs=^[_a-z][_a-z0-9]?$" >>,
       << "--load-plugins" >>,
       << "pylint.extensions.docparams" >>,
       EnableArg(ResolveEnable(source_file)),
       << source_file >> >>

(***************************************************************************)
(* The session bodies, statement by statement.  A statement is identified  *)
(* by the line of noxfile.py it starts on.                                 *)
(*   install : session.install(...)                                        *)
(*   run     : session.run(cmd, ...)                                       *)
(*   call    : a call of another function of the file on the same session  *)
(*   enter   : entering  `with session.chdir(dir)`                         *)
(*   exit    : leaving the with block normally                             *)
(***************************************************************************)

Install(line, args) ==
    [ line |-> line, kind |-> "install", cmd |-> "install", args |-> args ]

Run(line, cmd, args) ==
    [ line |-> line, kind |-> "run", cmd |-> cmd, args |-> args ]

Call(line, fn) ==
    [ line |-> line, kind |-> "call", cmd |-> fn, args |-> << >> ]

Enter(line, dir) ==
    [ line |-> line, kind |-> "enter", cmd |-> dir, args |-> << >> ]

Exit(line) ==
    [ line |-> line, kind |-> "exit", cmd |-> "", args |-> << >> ]

TestBody ==
    << Install(50, << "." >>),
       Run(52, "python",
           << "-c", "import opensearchpy\nprint(opensearchpy.OpenSearch())" >>),
       Install(54, << ".[async]" >>),
       Run(55, "python",
           << "-c", "import opensearchpy\nprint(opensearchpy.AsyncOpenSearch())" >>),
       Install(59, << "-r", "dev-requirements.txt" >>),
       Run(61, "python", << "setup.py", "test" >>) >>

\* FormatBody with a fault: lint is called before the license headers are fixed
FormatBody_LintFirst ==
    << Install(70, << "." >>),
       Install(71, << "black", "isort" >>),
       Run(73, "isort", SOURCE_FILES),
       Run(74, "black", SOURCE_FILES),
       Call(77, "lint"),
       Run(75, "python", << "utils/license_headers.py", "fix" >> \o SOURCE_FILES) >>

FormatBody ==
    << Install(70, << "." >>),
       Install(71, << "black", "isort" >>),
       Run(73, "isort", SOURCE_FILES),
       Run(74, "black", SOURCE_FILES),
       Run(75, "python", << "utils/license_headers.py", "fix" >> \o SOURCE_FILES),
       Call(77, "lint") >>

LintBody ==
    << Install(86, << "flake8", "black", "mypy", "isort", "pylint",
                      "types-requests", "types-six", "types-simplejson",
                      "types-python-dateutil", "types-PyYAML", "types-mock",
                      "types-pytz" >>),
       Run(101, "isort", << "--check" >> \o SOURCE_FILES),
       Run(102, "black", << "--check" >> \o SOURCE_FILES),
       Run(103, "flake8", SOURCE_FILES),
       Call(105, "lint_per_folder"),
       Run(107, "python", << "utils/license_headers.py", "check" >> \o SOURCE_FILES),
       Run(110, "python", << "-m", "pip", "install", "aiohttp" >>),
       Run(114, "mypy", << "--strict" >> \o SOURCE_FILES),
       Run(115, "mypy", << "--strict", "test_opensearchpy/test_types/sync_types.py" >>),
       Run(116, "mypy", << "--strict", "test_opensearchpy/test_types/async_types.py" >>),
       Run(120, "python", << "-m", "pip", "uninstall", "--yes", "aiohttp" >>),
       Run(121, "mypy", << "--strict", "opensearchpy/" >>),
       Run(122, "mypy", << "--strict", "test_opensearchpy/test_types/sync_types.py" >>) >>

DocsBody ==
    << Install(187, << "." >>),
       Install(188, << ".[docs]" >>),
       Enter(189, "docs"),
       Run(190, "make", << "html" >>),
       Exit(189) >>

GenerateBody ==
    << Install(199, << "-rdev-requirements.txt" >>),
       Run(200, "python", << "utils/generate_api.py" >>),
       Call(201, "format") >>

\* The statements of a function; lint_per_folder is a loop and has its own actions
Body(fn) ==
    CASE fn = "test" -> TestBody
      [] fn = "format" -> FormatBody
      [] fn = "lint" -> LintBody
      [] fn = "docs" -> DocsBody
      [] fn = "generate" -> GenerateBody
      [] OTHER -> << >>

\* The number of positions of a function: statements, or loop iterations
BodyLen(fn) ==
    IF fn = "lint_per_folder" THEN Len(SOURCE_FILES) ELSE Len(Body(fn))

(***************************************************************************)
(* Packages: what an install or a pip command does to the virtualenv       *)
(***************************************************************************)

\* The packages session.install(args) is known to put into the virtualenv
Requested(args) ==
    CASE args = << "." >> -> { "opensearchpy" }
      [] args = << ".[async]" >> -> { "opensearchpy", "aiohttp" }
      [] args = << ".[docs]" >> -> { "opensearchpy" }
      [] args = << "-r", "dev-requirements.txt" >> -> { }
      [] args = << "-rdev-requirements.txt" >> -> { }
      [] OTHER -> SeqToSet(args)

\* The packages a requirements file may or may not name (the file is not
\* part of noxfile.py, so both outcomes are kept)
Unknown(args) ==
    IF args \in { << "-r", "dev-requirements.txt" >>, << "-rdev-requirements.txt" >> }
    THEN { "aiohttp" }
    ELSE { }

\* RunEffect with a fault: the uninstall leaves the package in place
RunEffect_KeepsAiohttp(cmd, args, pkgs) ==
    IF cmd = "python" /\ args = << "-m", "pip", "install", "aiohttp" >>
    THEN pkgs \cup { "aiohttp" }
    ELSE pkgs

\* RunEffect with a fault: the pip install of aiohttp has no effect
RunEffect_InstallIgnored(cmd, args, pkgs) ==
    IF cmd = "python" /\ args = << "-m", "pip", "uninstall", "--yes", "aiohttp" >>
    THEN pkgs \ { "aiohttp" }
    ELSE pkgs

\* The packages after session.run(cmd, args) passed
RunEffect(cmd, args, pkgs) ==
    IF cmd = "python" /\ args = << "-m", "pip", "install", "aiohttp" >>
    THEN pkgs \cup { "aiohttp" }
    ELSE IF cmd = "python" /\ args = << "-m", "pip", "uninstall", "--yes", "aiohttp" >>
    THEN pkgs \ { "aiohttp" }
    ELSE pkgs

(***************************************************************************)
(* State                                                                   *)
(***************************************************************************)

VARIABLES
    phase,       \* "idle", "provision", "running", "done": where the runner is
    selected,    \* the session the driver selected
    constrained, \* whether the driver named one version of the session
    reuse,       \* whether existing virtualenvs are reused (nox -r)
    queue,       \* the versions still to run, the current one first
    env,         \* the virtualenv of the current session: id, version, pkgs
    stack,       \* the Python call stack of the session: frames fn, pc, saved
    cwd,         \* the working directory
    log,         \* the statements the current session executed, in order
    results,     \* each finished session, in order: version, ok, env (0: none)
    provisioned, \* the versions a virtualenv was asked for, in order
    outcome,     \* the exit status of the driver: "none", "pass", "fail"
    calls,       \* the functions the current session entered, in order
    runs,        \* the driver invocations that are over
    previous,    \* the pylint argument lists of the last complete earlier run
    exclude_path_from_linting  \* the local list of lint_per_folder, as a set

vars ==
    << phase, selected, constrained, reuse, queue, env, stack, cwd, log,
       results, provisioned, outcome, calls, runs, previous,
       exclude_path_from_linting >>

RootDir == "."
NoDir == "none"
NoEnv == [ id |-> 0, version |-> "none", pkgs |-> { } ]
NoRun == [ set |-> FALSE, args |-> << >>, run |-> 0, task |-> "none" ]

Frame(fn) == [ fn |-> fn, pc |-> 1, saved |-> NoDir ]

Top == stack[Len(stack)]

\* The statement the top frame is at
Stmt == Body(Top.fn)[Top.pc]

AtStmt(kind) ==
    /\ phase = "running"
    /\ stack # << >>
    /\ Top.fn # "lint_per_folder"
    /\ Top.pc <= BodyLen(Top.fn)
    /\ Stmt.kind = kind

\* What the log keeps of an executed install or command
Entry(st, ok) ==
    [ line |-> st.line, fn |-> Top.fn, kind |-> st.kind, cmd |-> st.cmd,
      args |-> st.args, ok |-> ok, pkgs |-> env.pkgs, cwd |-> cwd,
      depth |-> Len(stack), env |-> env.id, version |-> env.version ]

\* The exit status of the driver from the sessions' results
Outcome(rs) ==
    IF \A i \in DOMAIN rs : rs[i].ok THEN "pass" ELSE "fail"

\* The runner records the result of the current session and goes on to the
\* next version, if any
Finish(ok) ==
    /\ results' = Append(results, [ version |-> Head(queue), ok |-> ok,
                                    env |-> env'.id ])
    /\ queue' = Tail(queue)
    /\ IF Tail(queue) = << >>
       THEN /\ phase' = "done"
            /\ outcome' = Outcome(results')
       ELSE /\ phase' = "provision"
            /\ outcome' = outcome

\* UnwoundCwd with a fault: an exception leaves the directory as it is
UnwoundCwd_NotRestored == cwd

\* The working directory after an exception left every open with block
UnwoundCwd ==
    IF \E i \in DOMAIN stack : stack[i].saved # NoDir
    THEN LET i == CHOOSE j \in DOMAIN stack :
                      /\ stack[j].saved # NoDir
                      /\ \A k \in DOMAIN stack : stack[k].saved # NoDir => j <= k
         IN  stack[i].saved
    ELSE cwd

\* The next statement of the top frame
Advance ==
    /\ stack' = [ stack EXCEPT ![Len(stack)].pc = @ + 1 ]
    /\ UNCHANGED << cwd, results, queue, phase, outcome >>

\* Raise with a fault: the failure is swallowed and the body goes on
Raise_Swallowed ==
    Advance

\* Raise with a fault: the caller of a failed sub-step catches the failure
\* and goes on with its own next statement
Raise_OneFrame ==
    IF Len(stack) > 1
    THEN /\ stack' = [ SubSeq(stack, 1, Len(stack) - 1)
                         EXCEPT ![Len(stack) - 1].pc = @ + 1 ]
         /\ UNCHANGED << cwd, results, queue, phase, outcome >>
    ELSE /\ stack' = << >>
         /\ cwd' = UnwoundCwd
         /\ Finish(FALSE)

\* Raise with a fault: the session is left but recorded as passed
Raise_LosesOutcome ==
    /\ stack' = << >>
    /\ cwd' = UnwoundCwd
    /\ Finish(TRUE)

\* A failed install or command raises: no function of the file catches it,
\* so every frame is left and the session has failed
Raise ==
    /\ stack' = << >>
    /\ cwd' = UnwoundCwd
    /\ Finish(FALSE)

(***************************************************************************)
(* The runner                                                              *)
(***************************************************************************)

Init ==
    /\ phase = "idle"
    /\ selected = "none"
    /\ constrained = FALSE
    /\ reuse = FALSE
    /\ queue = << >>
    /\ env = NoEnv
    /\ stack = << >>
    /\ cwd = RootDir
    /\ log = << >>
    /\ results = << >>
    /\ provisioned = << >>
    /\ outcome = "none"
    /\ calls = << >>
    /\ runs = 0
    /\ previous = NoRun
    /\ exclude_path_from_linting = { }

\* The driver selects a session by name: every declared version of it
Invoke(task, r) ==
    /\ phase = "idle"
    /\ task \in Sessions
    /\ selected' = task
    /\ constrained' = FALSE
    /\ reuse' = r
    /\ queue' = DeclaredVersions(task)
    /\ phase' = "provision"
    /\ UNCHANGED << env, stack, cwd, log, results, provisioned, outcome,
                    exclude_path_from_linting >>
    /\ UNCHANGED << calls, runs, previous >>

\* The driver selects one version of a session declared for several
InvokeVersion(task, v, r) ==
    /\ phase = "idle"
    /\ task \in Sessions
    /\ Len(DeclaredVersions(task)) > 1
    /\ v \in SeqToSet(DeclaredVersions(task))
    /\ selected' = task
    /\ constrained' = TRUE
    /\ reuse' = r
    /\ queue' = << v >>
    /\ phase' = "provision"
    /\ UNCHANGED << env, stack, cwd, log, results, provisioned, outcome,
                    exclude_path_from_linting >>
    /\ UNCHANGED << calls, runs, previous >>

\* The virtualenv of the next version is there: the session body starts.
\* A reused virtualenv may hold aiohttp from an earlier run.  A session
\* that declares no version gets the interpreter nox runs on.
ProvisionOK ==
    /\ phase = "provision"
    /\ \E held \in (IF reuse THEN { { }, { "aiohttp" } } ELSE { { } }),
          v \in (IF Head(queue) = DefaultPython THEN HostPythons ELSE { Head(queue) }) :
          env' = [ id |-> Len(provisioned) + 1, version |-> v, pkgs |-> held ]
    /\ provisioned' = Append(provisioned, Head(queue))
    /\ stack' = << Frame(selected) >>
    /\ log' = << >>
    /\ phase' = "running"
    /\ UNCHANGED << selected, constrained, reuse, queue, cwd, results, outcome,
                    exclude_path_from_linting >>
    /\ calls' = << selected >>
    /\ UNCHANGED << runs, previous >>

\* The virtualenv could not be created: the session fails without running
ProvisionFail ==
    /\ phase = "provision"
    /\ provisioned' = Append(provisioned, Head(queue))
    /\ env' = NoEnv
    /\ log' = << >>
    /\ Finish(FALSE)
    /\ UNCHANGED << selected, constrained, reuse, stack, cwd,
                    exclude_path_from_linting >>
    /\ calls' = << >>
    /\ UNCHANGED << runs, previous >>

(***************************************************************************)
(* The statements                                                          *)
(***************************************************************************)

\* session.install(...)
StepInstall ==
    /\ AtStmt("install")
    /\ \E ok \in BOOLEAN, extra \in SUBSET Unknown(Stmt.args) :
          /\ log' = Append(log, Entry(Stmt, ok))
          /\ IF ok
             THEN /\ env' = [ env EXCEPT !.pkgs = @ \cup Requested(Stmt.args) \cup extra ]
                  /\ Advance
             ELSE /\ env' = env
                  /\ Raise
    /\ UNCHANGED << selected, constrained, reuse, provisioned,
                    exclude_path_from_linting >>
    /\ UNCHANGED << calls, runs, previous >>

\* session.run(cmd, ...)
StepRun ==
    /\ AtStmt("run")
    /\ \E ok \in BOOLEAN :
          /\ log' = Append(log, Entry(Stmt, ok))
          /\ IF ok
             THEN /\ env' = [ env EXCEPT !.pkgs = RunEffect(Stmt.cmd, Stmt.args, @) ]
                  /\ Advance
             ELSE /\ env' = env
                  /\ Raise
    /\ UNCHANGED << selected, constrained, reuse, provisioned,
                    exclude_path_from_linting >>
    /\ UNCHANGED << calls, runs, previous >>

\* StepCall with a fault: the called session gets a virtualenv of its own
StepCall_FreshEnv ==
    /\ AtStmt("call")
    /\ Stmt.cmd # "lint_per_folder"
    /\ stack' = Append(stack, Frame(Stmt.cmd))
    /\ env' = [ id |-> env.id + 1, version |-> Head(DeclaredVersions(Stmt.cmd)),
                pkgs |-> { } ]
    /\ UNCHANGED << phase, selected, constrained, reuse, queue, cwd, log,
                    results, provisioned, outcome, exclude_path_from_linting >>
    /\ calls' = Append(calls, Stmt.cmd)
    /\ UNCHANGED << runs, previous >>

\* lint(session), format(session): a call on the caller's session
StepCall ==
    /\ AtStmt("call")
    /\ Stmt.cmd # "lint_per_folder"
    /\ stack' = Append(stack, Frame(Stmt.cmd))
    /\ env' = env
    /\ UNCHANGED << phase, selected, constrained, reuse, queue, cwd, log,
                    results, provisioned, outcome, exclude_path_from_linting >>
    /\ calls' = Append(calls, Stmt.cmd)
    /\ UNCHANGED << runs, previous >>

\* lint_per_folder(session): the call and the declarations before the loop.
\* The file declares exclude_path_from_linting empty; the model lets it be
\* any set of ExcludeCandidates, the empty one included.  It is a literal of
\* the file: a later driver invocation finds the same value.
EnterLintPerFolder ==
    /\ AtStmt("call")
    /\ Stmt.cmd = "lint_per_folder"
    /\ \E ex \in (IF runs = 0 THEN SUBSET ExcludeCandidates
                  ELSE { exclude_path_from_linting }) :
          exclude_path_from_linting' = ex
    /\ stack' = Append(stack, Frame("lint_per_folder"))
    /\ UNCHANGED << phase, selected, constrained, reuse, queue, env, cwd, log,
                    results, provisioned, outcome >>
    /\ calls' = Append(calls, "lint_per_folder")
    /\ UNCHANGED << runs, previous >>

AtLoop ==
    /\ phase = "running"
    /\ stack # << >>
    /\ Top.fn = "lint_per_folder"
    /\ Top.pc <= Len(SOURCE_FILES)

\* source_file with a fault: the loop walks SOURCE_FILES backwards
source_file_Reversed == SOURCE_FILES[Len(SOURCE_FILES) + 1 - Top.pc]

\* source_file with a fault: an earlier driver invocation left SOURCE_FILES
\* in another order
source_file_Reordered ==
    IF runs > 0 THEN SOURCE_FILES[Len(SOURCE_FILES) + 1 - Top.pc] ELSE SOURCE_FILES[Top.pc]

\* for source_file in SOURCE_FILES: the source_file of the current iteration
source_file == SOURCE_FILES[Top.pc]

\* Excluded with a fault: the exclusion list is never consulted
Excluded_Never(path) == FALSE

\* source_file in exclude_path_from_linting
Excluded(path) == path \in exclude_path_from_linting

\* if source_file in exclude_path_from_linting: continue
LoopContinue ==
    /\ AtLoop
    /\ Excluded(source_file)
    /\ env' = env
    /\ Advance
    /\ UNCHANGED << selected, constrained, reuse, log, provisioned,
                    exclude_path_from_linting >>
    /\ UNCHANGED << calls, runs, previous >>

\* The rest of the loop body: build args, session.run("pylint", ...)
LoopPylint ==
    /\ AtLoop
    /\ ~Excluded(source_file)
    /\ \E ok \in BOOLEAN :
          /\ log' = Append(log, Entry(Run(178, "pylint", PylintArgs(source_file)), ok))
          /\ env' = env
          /\ IF ok THEN Advance ELSE Raise
    /\ UNCHANGED << selected, constrained, reuse, provisioned,
                    exclude_path_from_linting >>
    /\ UNCHANGED << calls, runs, previous >>

\* with session.chdir(dir): the directory is saved and changed
EnterScope ==
    /\ AtStmt("enter")
    /\ cwd' = Stmt.cmd
    /\ stack' = [ stack EXCEPT ![Len(stack)].pc = @ + 1,
                               ![Len(stack)].saved = cwd ]
    /\ UNCHANGED << phase, selected, constrained, reuse, queue, env, log,
                    results, provisioned, outcome, exclude_path_from_linting >>
    /\ UNCHANGED << calls, runs, previous >>

\* The with block is left normally: the saved directory is restored
ExitScope ==
    /\ AtStmt("exit")
    /\ cwd' = Top.saved
    /\ stack' = [ stack EXCEPT ![Len(stack)].pc = @ + 1,
                               ![Len(stack)].saved = NoDir ]
    /\ UNCHANGED << phase, selected, constrained, reuse, queue, env, log,
                    results, provisioned, outcome, exclude_path_from_linting >>
    /\ UNCHANGED << calls, runs, previous >>

\* Return with a fault: the caller is back at the call it just made
Return_CallsAgain ==
    /\ phase = "running"
    /\ Len(stack) > 1
    /\ Top.pc > BodyLen(Top.fn)
    /\ stack' = SubSeq(stack, 1, Len(stack) - 1)
    /\ UNCHANGED << phase, selected, constrained, reuse, queue, env, cwd, log,
                    results, provisioned, outcome, exclude_path_from_linting >>
    /\ UNCHANGED << calls, runs, previous >>

\* A called function returns to its caller, which goes on
Return ==
    /\ phase = "running"
    /\ Len(stack) > 1
    /\ Top.pc > BodyLen(Top.fn)
    /\ stack' = [ SubSeq(stack, 1, Len(stack) - 1)
                    EXCEPT ![Len(stack) - 1].pc = @ + 1 ]
    /\ UNCHANGED << phase, selected, constrained, reuse, queue, env, cwd, log,
                    results, provisioned, outcome, exclude_path_from_linting >>
    /\ UNCHANGED << calls, runs, previous >>

\* The session function itself returns: the session passed
SessionPassed ==
    /\ phase = "running"
    /\ Len(stack) = 1
    /\ Top.pc > BodyLen(Top.fn)
    /\ stack' = << >>
    /\ env' = env
    /\ Finish(TRUE)
    /\ UNCHANGED << selected, constrained, reuse, cwd, log, provisioned,
                    exclude_path_from_linting >>
    /\ UNCHANGED << calls, runs, previous >>

Next ==
    \/ \E task \in Sessions, r \in BOOLEAN : Invoke(task, r)
    \/ \E task \in Sessions, v \in SeqToSet(TestVersions), r \in BOOLEAN :
          InvokeVersion(task, v, r)
    \/ ProvisionOK
    \/ ProvisionFail
    \/ StepInstall
    \/ StepRun
    \/ StepCall
    \/ EnterLintPerFolder
    \/ LoopContinue
    \/ LoopPylint
    \/ EnterScope
    \/ ExitScope
    \/ Return
    \/ SessionPassed

Spec == Init /\ [][Next]_vars

(***************************************************************************)
(* Reading the log                                                         *)
(***************************************************************************)

Last(s) == s[Len(s)]

IsPrefix(s, t) == Len(s) <= Len(t) /\ SubSeq(t, 1, Len(s)) = s

\* The pylint invocations of the session, in the order they were issued
PylintEntries == SelectSeq(log, LAMBDA e : e.cmd = "pylint")

\* The location an invocation names: the one piece of its last argument
PathOf(e) == e.args[Len(e.args)][1]

PylintPaths == [ i \in DOMAIN PylintEntries |-> PathOf(PylintEntries[i]) ]

\* The --enable arguments of an invocation
EnableArgsOf(e) == SelectSeq(e.args, LAMBDA a : a # << >> /\ a[1] = "--enable=")

\* What pylint reads from a value: the segments between the commas
RECURSIVE SplitComma(_)
SplitComma(p) ==
    IF \A i \in DOMAIN p : p[i] # ","
    THEN << p >>
    ELSE LET k == CHOOSE i \in DOMAIN p :
                      p[i] = "," /\ \A j \in 1 .. (i - 1) : p[j] # ","
         IN  << SubSeq(p, 1, k - 1) >> \o SplitComma(SubSeq(p, k + 1, Len(p)))

\* The checks an invocation enables, in order
EnabledChecks(e) == SplitComma(Tail(EnableArgsOf(e)[1]))

\* A list of names as the segments pylint would read
Segments(names) == [ i \in DOMAIN names |-> << names[i] >> ]

NotExcludedFiles == SelectSeq(SOURCE_FILES, LAMBDA f : f \notin exclude_path_from_linting)

\* lint_per_folder has gone through its whole loop in this session
LoopCompleted ==
    \/ /\ stack # << >>
       /\ Top.fn = "lint_per_folder"
       /\ Top.pc > Len(SOURCE_FILES)
    \/ \E i \in DOMAIN log : log[i].fn = "lint" /\ log[i].line > 105

Count(path) == Cardinality({ i \in DOMAIN PylintEntries : PathOf(PylintEntries[i]) = path })

\* The argument lists of the pylint invocations of the session, in order
ArgsIssued == [ i \in DOMAIN PylintEntries |-> PylintEntries[i].args ]

(***************************************************************************)
(* Several driver invocations, one after the other.  The module of the     *)
(* file is loaded anew by each: SOURCE_FILES and the tables of             *)
(* lint_per_folder are literals, the state of a session is gone.  What is  *)
(* kept here of an invocation that went through the whole loop is the      *)
(* sequence of its pylint argument lists, to compare the next ones with.   *)
(***************************************************************************)

Again ==
    /\ phase = "done"
    /\ runs + 1 < MaxRuns
    /\ runs' = runs + 1
    /\ previous' = IF LoopCompleted
                   THEN [ set |-> TRUE, args |-> ArgsIssued, run |-> runs,
                          task |-> selected ]
                   ELSE previous
    /\ phase' = "idle"
    /\ selected' = "none"
    /\ constrained' = FALSE
    /\ reuse' = FALSE
    /\ queue' = << >>
    /\ env' = NoEnv
    /\ stack' = << >>
    /\ log' = << >>
    /\ results' = << >>
    /\ provisioned' = << >>
    /\ outcome' = "none"
    /\ calls' = << >>
    /\ UNCHANGED << cwd, exclude_path_from_linting >>

\* The steps followed over several invocations: those of Next, with test
\* selected for one version at a time and at most MaxExcluded excluded paths
NextRuns ==
    \/ \E task \in Sessions \ { "test" }, r \in BOOLEAN : Invoke(task, r)
    \/ \E task \in Sessions, v \in SeqToSet(TestVersions), r \in BOOLEAN :
          InvokeVersion(task, v, r)
    \/ ProvisionOK
    \/ ProvisionFail
    \/ StepInstall
    \/ StepRun
    \/ StepCall
    \/ EnterLintPerFolder /\ Cardinality(exclude_path_from_linting') <= MaxExcluded
    \/ LoopContinue
    \/ LoopPylint
    \/ EnterScope
    \/ ExitScope
    \/ Return
    \/ SessionPassed
    \/ Again

SpecRuns == Init /\ [][NextRuns]_vars

(***************************************************************************)
(* Claims                                                                  *)
(***************************************************************************)

\* C1: every pylint invocation for a location without a key in
\* override_enable carries exactly one --enable list, and it is
\* default_enable: the seven names, in order, nothing added or dropped.
C1_DefaultForUnlisted ==
    \A i \in DOMAIN log :
        (log[i].cmd = "pylint" /\ PathOf(log[i]) \notin DOMAIN override_enable)
        => /\ Len(EnableArgsOf(log[i])) = 1
           /\ EnabledChecks(log[i]) = Segments(default_enable)
           /\ Len(EnabledChecks(log[i])) = 7

C1_Witness ==
    \E i \in DOMAIN log :
        /\ log[i].cmd = "pylint"
        /\ PathOf(log[i]) = "utils/"
        /\ exclude_path_from_linting # { }

\* C2: every pylint invocation for a location with a key in override_enable
\* carries exactly that override, in its declared order, and no check that
\* is in default_enable but not in the override is enabled for it.
C2_OverrideReplaces ==
    \A i \in DOMAIN log :
        (log[i].cmd = "pylint" /\ PathOf(log[i]) \in DOMAIN override_enable)
        => /\ Len(EnableArgsOf(log[i])) = 1
           /\ EnabledChecks(log[i]) = Segments(override_enable[PathOf(log[i])])
           /\ \A n \in SeqToSet(default_enable) \ SeqToSet(override_enable[PathOf(log[i])]) :
                 << n >> \notin SeqToSet(EnabledChecks(log[i]))

C2_Witness ==
    /\ \E i \in DOMAIN log : log[i].cmd = "pylint" /\ PathOf(log[i]) = "opensearchpy/"
    /\ \E i \in DOMAIN log : log[i].cmd = "pylint" /\ PathOf(log[i]) = "test_opensearchpy/"

\* C3: the locations of the pylint invocations issued so far are, in this
\* order, the first non-excluded locations of SOURCE_FILES, and once the
\* loop is through they are all of them: no invocation overtakes another.
C3_DeclarationOrder ==
    /\ IsPrefix(PylintPaths, NotExcludedFiles)
    /\ (LoopCompleted /\ \A i \in DOMAIN PylintEntries : PylintEntries[i].ok)
       => PylintPaths = NotExcludedFiles

C3_Witness ==
    /\ LoopCompleted
    /\ Cardinality(exclude_path_from_linting) = 2
    /\ Len(PylintPaths) = Len(SOURCE_FILES) - 2
    /\ \A i \in DOMAIN PylintEntries : PylintEntries[i].ok

\* C4: no pylint invocation is ever issued for an excluded location, with
\* or without an override entry, and when the loop is through with every
\* pylint command passed, each other location has exactly one invocation.
C4_OnePerIncludedLocation ==
    /\ \A f \in exclude_path_from_linting : Count(f) = 0
    /\ (LoopCompleted /\ \A i \in DOMAIN PylintEntries : PylintEntries[i].ok)
       => \A f \in SeqToSet(SOURCE_FILES) \ exclude_path_from_linting : Count(f) = 1

C4_Witness ==
    /\ LoopCompleted
    /\ exclude_path_from_linting = { "opensearchpy/", "docs/" }
    /\ Len(PylintEntries) = 6
    /\ \A i \in DOMAIN PylintEntries : PylintEntries[i].ok

\* The lines of the installs and commands a complete run of fn executes, in
\* order, sub-steps included; one pylint command per location not excluded
RECURSIVE FlatLines(_), FlatFrom(_, _)
FlatLines(fn) ==
    IF fn = "lint_per_folder"
    THEN [ i \in DOMAIN NotExcludedFiles |-> 178 ]
    ELSE FlatFrom(fn, 1)
FlatFrom(fn, k) ==
    IF k > Len(Body(fn)) THEN << >>
    ELSE LET st == Body(fn)[k]
         IN  (CASE st.kind \in { "install", "run" } -> << st.line >>
                [] st.kind = "call" -> FlatLines(st.cmd)
                [] OTHER -> << >>) \o FlatFrom(fn, k + 1)

LogLines == [ i \in DOMAIN log |-> log[i].line ]

AllPassed == \A i \in DOMAIN log : log[i].ok

\* C5: in a session the installs and commands run in the declared order of
\* the bodies, none is skipped, every entry before the last one passed, and
\* a failed one ends the session: nothing of it runs afterwards.
C5_FirstFailureAborts ==
    /\ \A i \in DOMAIN log : i < Len(log) => log[i].ok
    /\ (log # << >> /\ ~Last(log).ok) => (stack = << >> /\ phase # "running")
    /\ selected \in Sessions => IsPrefix(LogLines, FlatLines(selected))

C5_Witness ==
    /\ selected = "lint"
    /\ phase = "done"
    /\ Len(log) = 3
    /\ Last(log).line = 102
    /\ ~Last(log).ok

\* C6: a failed command of a sub-step (a function called by another) is the
\* last thing the session runs: the rest of the sub-step and the callers'
\* following statements do not run, and the outcome is failure, from any
\* depth of generate -> format -> lint -> lint_per_folder.
C6_SubStepFailurePropagates ==
    \A i \in DOMAIN log :
        (log[i].depth > 1 /\ ~log[i].ok)
        => /\ i = Len(log)
           /\ stack = << >>
           /\ phase = "done"
           /\ ~Last(results).ok
           /\ outcome = "fail"

C6_Witness ==
    /\ selected = "generate"
    /\ log # << >>
    /\ Last(log).cmd = "pylint"
    /\ Last(log).depth = 4
    /\ ~Last(log).ok
    /\ outcome = "fail"

\* C7: test without a version constraint asks for one virtualenv per
\* declared version, the six in declared order, whatever the earlier
\* versions did; a version whose session passed ran all six statements in
\* its own virtualenv; the outcome is pass only if every version passed.
C7_EveryVersionRuns ==
    (selected = "test" /\ ~constrained)
    => /\ IsPrefix(provisioned, << "3.6", "3.7", "3.8", "3.9", "3.10", "3.11" >>)
       /\ Len(provisioned) = Len(results) + (IF phase = "running" THEN 1 ELSE 0)
       /\ \A i \in DOMAIN results : results[i].version = provisioned[i]
       /\ (phase = "done") <=> (Len(results) = 6)
       /\ (phase = "done" /\ outcome = "pass") => \A i \in DOMAIN results : results[i].ok
       /\ phase = "done" => outcome \in { "pass", "fail" }
       /\ (phase # "running" /\ results # << >> /\ Last(results).ok)
          => /\ LogLines = << 50, 52, 54, 55, 59, 61 >>
             /\ AllPassed
             /\ \A i \in DOMAIN log : log[i].env = Len(results)

C7_Witness ==
    /\ selected = "test"
    /\ ~constrained
    /\ phase = "done"
    /\ results[1].env = 0
    /\ ~results[3].ok /\ results[3].env = 3
    /\ Last(results).ok
    /\ Len(log) = 6
    /\ outcome = "fail"

\* C9: when a single-version session (format, lint, docs, generate) is
\* done, the outcome is pass exactly if every install and command of it and
\* of its sub-steps was executed and passed; a failed one makes the outcome
\* failure and is the only failed one: the first, and the last thing run.
C9_OutcomeIffAllPassed ==
    (phase = "done" /\ selected \in { "format", "lint", "docs", "generate" })
    => /\ outcome \in { "pass", "fail" }
       /\ (outcome = "pass") <=> (LogLines = FlatLines(selected) /\ AllPassed)
       /\ \A i \in DOMAIN log : ~log[i].ok => (outcome = "fail" /\ i = Len(log))

C9_Witness ==
    /\ phase = "done"
    /\ selected = "generate"
    /\ outcome = "pass"
    /\ exclude_path_from_linting = { "samples/" }
    /\ Len(log) = 2 + 5 + 12 + 7

\* C10: in every run of lint, aiohttp is not installed when the mypy runs of
\* lines 121 and 122 execute, whatever the virtualenv held before, and it
\* is still not installed once the last of them has passed.
C10_NoAiohttpForLastMypy ==
    /\ \A i \in DOMAIN log :
          (log[i].fn = "lint" /\ log[i].line \in { 121, 122 })
          => (log[i].cmd = "mypy" /\ "aiohttp" \notin log[i].pkgs)
    /\ (log # << >> /\ Last(log).line = 122 /\ Last(log).ok)
       => "aiohttp" \notin env.pkgs

C10_Witness ==
    /\ selected = "generate"
    /\ phase = "done"
    /\ log # << >>
    /\ "aiohttp" \in log[1].pkgs
    /\ Last(log).line = 122
    /\ Last(log).ok
    /\ \E i \in DOMAIN log : log[i].line = 121 /\ "aiohttp" \notin log[i].pkgs

\* C11: in docs the working directory is "docs" exactly while the build
\* command of line 190 runs; the installs run in the directory nox started
\* in, and once the with block is left, by the build passing or failing,
\* the directory is again the one it was on entering.
C11_ChdirScoped ==
    selected = "docs"
    => /\ \A i \in DOMAIN log :
             log[i].cwd = (IF log[i].line = 190 THEN "docs" ELSE RootDir)
       /\ \A i \in DOMAIN stack :
             stack[i].saved # NoDir => (stack[i].saved = RootDir /\ cwd = "docs")
       /\ (\A i \in DOMAIN stack : stack[i].saved = NoDir) => cwd = RootDir

C11_Witness ==
    /\ selected = "docs"
    /\ phase = "done"
    /\ log # << >>
    /\ Last(log).line = 190
    /\ Last(log).cwd = "docs"
    /\ ~Last(log).ok
    /\ cwd = RootDir

\* Entry j of the log is a passed entry of the given line before entry i
PassedBefore(line, i) ==
    \E j \in DOMAIN log : j < i /\ log[j].line = line /\ log[j].ok

\* C12: in test, for every version, the smoke command of line 52 runs
\* without aiohttp in the virtualenv and the one of line 55 runs with it,
\* after the install of line 54; the virtualenv of a version starts without
\* the packages another version installed; the test suite of line 61 runs
\* only after lines 52, 55 and 59 passed.
C12_SmokeWithoutThenWith ==
    selected = "test"
    => \A i \in DOMAIN log :
          /\ log[i].line = 52 => "aiohttp" \notin log[i].pkgs
          /\ log[i].line = 55 => ("aiohttp" \in log[i].pkgs /\ PassedBefore(54, i))
          /\ log[i].line = 61
             => (PassedBefore(52, i) /\ PassedBefore(55, i) /\ PassedBefore(59, i))
          /\ i = 1 => "opensearchpy" \notin log[i].pkgs
          /\ log[i].env = Len(provisioned)

\* C13 as claimed: every command of format, and of lint under format, runs
\* in a virtualenv of version 3.7, under generate too.
C13_FormatAlwaysIn37 ==
    \A i \in DOMAIN log :
        (log[i].fn \in { "format", "lint", "lint_per_folder" }
            /\ selected \in { "format", "generate" })
        => log[i].version = "3.7"

\* C13, amended: every command of format and of lint under it runs in the
\* one virtualenv of the session the driver selected: of version 3.7 when
\* that session is format or lint, and of the version generate's own
\* statements ran in (the interpreter nox runs on) when it is generate.
C13_FormatInCallersEnv ==
    \A i \in DOMAIN log :
        log[i].fn \in { "format", "lint", "lint_per_folder" }
        => /\ log[i].env = env.id
           /\ log[i].version = env.version
           /\ log[i].version = log[1].version
           /\ selected \in { "format", "lint" } => log[i].version = "3.7"
           /\ selected = "generate" => log[i].version \in HostPythons

C13_Witness ==
    /\ selected = "generate"
    /\ \E i \in DOMAIN log : log[i].fn = "format" /\ log[i].version = "3.11"
    /\ \E i \in DOMAIN log : log[i].fn = "lint" /\ log[i].version = "3.11"
    /\ log[1].fn = "generate"

\* C14: in every run of lint, aiohttp is installed when the mypy runs of
\* lines 114, 115 and 116 execute, whatever the virtualenv held when lint
\* began, and none of the three runs after the uninstall of line 120.
C14_AiohttpForFirstMypy ==
    \A i \in DOMAIN log :
        (log[i].fn = "lint" /\ log[i].line \in { 114, 115, 116 })
        => /\ log[i].cmd = "mypy"
           /\ "aiohttp" \in log[i].pkgs
           /\ PassedBefore(110, i)
           /\ \A j \in DOMAIN log : log[j].line = 120 => i < j

C14_Witness ==
    /\ selected = "lint"
    /\ log # << >>
    /\ "aiohttp" \notin log[1].pkgs
    /\ \E i \in DOMAIN log : log[i].line = 107 /\ "aiohttp" \notin log[i].pkgs
    /\ \E i \in DOMAIN log : log[i].line = 116 /\ "aiohttp" \in log[i].pkgs
    /\ \E i \in DOMAIN log : log[i].line = 120 /\ log[i].ok

\* C15: every pylint invocation of lint_per_folder has the disable-all flag,
\* the maximum-line-length parameter, the naming-pattern parameter and exactly
\* one --enable argument, which reads as the names of the location's RuleSet
\* in declared order; the disable-all flag comes before the --enable argument,
\* the location is the last argument, and the list holds nothing appended for
\* another location: seven arguments, one --enable, one path.
C15_ArgumentList ==
    \A i \in DOMAIN log :
        log[i].cmd = "pylint"
        => LET a == log[i].args
               p == PathOf(log[i])
           IN  /\ Len(a) = 7
               /\ \E k \in DOMAIN a : a[k] = << "--disable=all" >>
               /\ \E k \in DOMAIN a : a[k] = << "--max-line-length=240" >>
               /\ \E k \in DOMAIN a : a[k] = << "--good-names-rgxs=^[_a-z][_a-z0-9]?$" >>
               /\ Len(EnableArgsOf(log[i])) = 1
               /\ EnabledChecks(log[i]) =
                      Segments(IF p \in DOMAIN override_enable
                               THEN override_enable[p] ELSE default_enable)
               /\ \A k, m \in DOMAIN a :
                      (a[k] = << "--disable=all" >> /\ a[m][1] = "--enable=") => k < m
               /\ p \in SeqToSet(SOURCE_FILES)
               /\ Len(a[Len(a)]) = 1
               /\ \A k \in 1 .. (Len(a) - 1) :
                      \A q \in SeqToSet(SOURCE_FILES) : a[k] # << q >>

C15_Witness ==
    /\ Len(PylintEntries) >= 3
    /\ PathOf(PylintEntries[1]) = "setup.py"
    /\ \E i \in DOMAIN PylintEntries : PathOf(PylintEntries[i]) = "opensearchpy/"
    /\ \E i \in DOMAIN PylintEntries : PathOf(PylintEntries[i]) = "utils/"
    /\ \A i \in DOMAIN PylintEntries : Len(PylintEntries[i].args) = 7

\* The statements of format that rewrite the tree, and the functions whose
\* commands only check it
WriteLines == { 73, 74, 75 }

CheckFns == { "lint", "lint_per_folder" }

\* C16: under generate the generator of line 200 has passed before any
\* command of format; under format (selected, or called by generate) the
\* write steps of lines 73, 74 and 75 have passed, in that order, before any
\* command of lint; lint is called once, by format's last statement, and a
\* format that passed has called it; no write step runs after a command of
\* lint.
C16_WriteThenCheck ==
    /\ selected = "generate"
       => \A i \in DOMAIN log :
              log[i].fn \in { "format" } \cup CheckFns => PassedBefore(200, i)
    /\ selected \in { "format", "generate" }
       => /\ \A i \in DOMAIN log :
                 log[i].fn \in CheckFns
                 => /\ PassedBefore(73, i) /\ PassedBefore(74, i) /\ PassedBefore(75, i)
                    /\ \A j \in DOMAIN log : log[j].fn = "format" => j < i
          /\ \A j, k \in DOMAIN log :
                 (log[j].line \in WriteLines /\ log[k].line \in WriteLines /\ j < k)
                 => log[j].line < log[k].line
          /\ Cardinality({ k \in DOMAIN calls : calls[k] = "lint" }) <= 1
          /\ \A k \in DOMAIN calls :
                 calls[k] = "lint" => (k > 1 /\ calls[k - 1] = "format")
          /\ (phase = "done" /\ outcome = "pass")
             => Cardinality({ k \in DOMAIN calls : calls[k] = "lint" }) = 1
    /\ \A i, j \in DOMAIN log :
           (i < j /\ log[i].fn \in CheckFns) => log[j].line \notin WriteLines

C16_Witness ==
    /\ selected = "generate"
    /\ phase = "done"
    /\ outcome = "pass"
    /\ calls = << "generate", "format", "lint", "lint_per_folder" >>
    /\ \E i \in DOMAIN log : log[i].line = 75 /\ log[i].ok
    /\ \E i \in DOMAIN log : log[i].line = 101 /\ log[i].ok

\* C18: a driver invocation of generate, format or lint asks for one
\* virtualenv; every statement of the session and of the functions it calls
\* executes in it; and what a passed statement installed or uninstalled is
\* what the next statement finds, across the calls and returns between them.
C18_OneEnvironment ==
    selected \in { "generate", "format", "lint" }
    => /\ Len(provisioned) <= 1
       /\ log # << >> => Len(provisioned) = 1
       /\ \A i \in DOMAIN log : log[i].env = env.id /\ log[i].env = log[1].env
       /\ \A i \in DOMAIN log :
              (log[i].fn \in { "lint", "lint_per_folder" } /\ selected # "lint")
              => { "opensearchpy", "black", "isort" } \subseteq log[i].pkgs
       /\ \A i \in 1 .. (Len(log) - 1) :
              LET before == log[i].pkgs
                  after == log[i + 1].pkgs
              IN  CASE log[i].kind = "install"
                         -> /\ Requested(log[i].args) \subseteq after
                            /\ before \subseteq after
                    [] log[i].line = 110 -> after = before \cup { "aiohttp" }
                    [] log[i].line = 120 -> after = before \ { "aiohttp" }
                    [] OTHER -> after = before

C18_Witness ==
    /\ selected = "generate"
    /\ phase = "done"
    /\ log # << >>
    /\ log[1].pkgs = { }
    /\ Last(log).line = 122
    /\ Last(log).fn = "lint"
    /\ Last(log).depth = 3
    /\ { "opensearchpy", "black", "isort", "mypy" } \subseteq Last(log).pkgs
    /\ "aiohttp" \notin Last(log).pkgs
    /\ \E i \in DOMAIN log : log[i].line = 116 /\ "aiohttp" \in log[i].pkgs

\* names is default_enable with some names left out, the rest in their order
DropsOnly(names) ==
    names = SelectSeq(default_enable, LAMBDA n : n \in SeqToSet(names))

\* The locations whose invocation enables something else than the default
DifferingPaths ==
    { PathOf(PylintEntries[i]) : i \in
        { k \in DOMAIN PylintEntries :
            EnabledChecks(PylintEntries[k]) # Segments(default_enable) } }

\* C20: every key of override_enable is in SOURCE_FILES and every override
\* is the seven-name default with names left out, in the default's order;
\* no invocation enables a check that the default does not have; when the
\* loop has completed, the invocations whose enable list differs from the
\* default are those of opensearchpy/ and test_opensearchpy/ (two, when
\* neither is excluded).
C20_OverridesOnlyDrop ==
    /\ Len(default_enable) = 7
    /\ DOMAIN override_enable \subseteq SeqToSet(SOURCE_FILES)
    /\ \A p \in DOMAIN override_enable :
           DropsOnly(override_enable[p]) /\ override_enable[p] # default_enable
    /\ \A i \in DOMAIN PylintEntries :
           SeqToSet(EnabledChecks(PylintEntries[i]))
               \subseteq SeqToSet(Segments(default_enable))
    /\ DifferingPaths \subseteq { "opensearchpy/", "test_opensearchpy/" }
    /\ LoopCompleted
       => /\ DifferingPaths =
                 { "opensearchpy/", "test_opensearchpy/" } \ exclude_path_from_linting
          /\ exclude_path_from_linting = { } => Cardinality(DifferingPaths) = 2

C20_Witness ==
    /\ LoopCompleted
    /\ exclude_path_from_linting = { }
    /\ Len(PylintEntries) = Len(SOURCE_FILES)
    /\ DifferingPaths = { "opensearchpy/", "test_opensearchpy/" }
    /\ \E i \in DOMAIN PylintEntries :
           /\ PathOf(PylintEntries[i]) = "opensearchpy/"
           /\ Len(EnabledChecks(PylintEntries[i])) = 4

\* The functions of the file and the calls between them, read off the bodies
Functions == Sessions \cup { "lint_per_folder" }

CallEdges ==
    UNION { { << f, Body(f)[k].cmd >> :
                k \in { j \in DOMAIN Body(f) : Body(f)[j].kind = "call" } } :
            f \in Functions }

Compose(R, S) ==
    { << p[1][1], p[2][2] >> : p \in { q \in R \X S : q[1][2] = q[2][1] } }

\* f calls g, directly or through other functions (six functions: chains of
\* up to eight calls cover every path without a repeated function)
CallsTransitively ==
    LET R2 == CallEdges \cup Compose(CallEdges, CallEdges)
        R4 == R2 \cup Compose(R2, R2)
    IN  R4 \cup Compose(R4, R4)

\* The steps a frame of fn at position pc still has to take, those of the
\* functions it will call and their returns included
RECURSIVE StepsFrom(_, _)
StepsFrom(fn, pc) ==
    IF fn = "lint_per_folder"
    THEN (IF pc > Len(SOURCE_FILES) THEN 0 ELSE Len(SOURCE_FILES) - pc + 1)
    ELSE IF pc > Len(Body(fn)) THEN 0
    ELSE (IF Body(fn)[pc].kind = "call"
          THEN StepsFrom(Body(fn)[pc].cmd, 1) + 2
          ELSE 1) + StepsFrom(fn, pc + 1)

\* The steps the frames 1 .. k of the stack still have to take: a frame
\* below the top is at a call that was made, and waits for the return
RECURSIVE StackSteps(_)
StackSteps(k) ==
    IF k = 0 THEN 0
    ELSE StackSteps(k - 1)
         + (IF k = Len(stack)
            THEN StepsFrom(stack[k].fn, stack[k].pc)
            ELSE 1 + StepsFrom(stack[k].fn, stack[k].pc + 1))

\* The steps of one session: the virtualenv, the body, the result
SessionSteps == StepsFrom(selected, 1) + 2

\* A bound on the steps the driver invocation still takes
Rank ==
    CASE phase = "provision" -> Len(queue) * SessionSteps
      [] phase = "running" -> (Len(queue) - 1) * SessionSteps + StackSteps(Len(stack)) + 1
      [] OTHER -> 0

C19_Bounded ==
    /\ \A f \in Functions : << f, f >> \notin CallsTransitively
    /\ Len(stack) <= 4
    /\ \A i \in 1 .. (Len(stack) - 1) :
           << stack[i].fn, stack[i + 1].fn >> \in CallEdges
    /\ \A i, j \in DOMAIN calls : calls[i] = calls[j] => i = j
    /\ \A i \in DOMAIN stack :
           /\ stack[i].pc <= BodyLen(stack[i].fn) + 1
           /\ \E k \in DOMAIN calls : calls[k] = stack[i].fn
    /\ Len(PylintEntries) <= Len(SOURCE_FILES)
    /\ \A f \in SeqToSet(SOURCE_FILES) : Count(f) <= 1
    /\ phase \in { "provision", "running" } => (Rank > 0 /\ ENABLED Next)

\* A step of an invocation under way lowers the rank
RankFalls ==
    phase \in { "provision", "running" } => (Rank' < Rank /\ Rank' >= 0)

\* C19: every driver invocation ends, given that every install and command
\* returns: the calls between the functions have no cycle, a function is
\* entered at most once per session (driver invocation and version), at most
\* four frames are on the stack, the loop takes each of SOURCE_FILES at most
\* once, a step is possible until the invocation is over, and every step of
\* an invocation under way lowers a natural number.
C19_Terminates ==
    /\ []C19_Bounded
    /\ [][RankFalls]_vars

C19_Witness ==
    /\ selected = "generate"
    /\ Len(stack) = 4
    /\ calls = << "generate", "format", "lint", "lint_per_folder" >>
    /\ Top.fn = "lint_per_folder"
    /\ Top.pc = Len(SOURCE_FILES) + 1
    /\ Len(PylintEntries) = Len(SOURCE_FILES)
    /\ Rank = StepsFrom("lint", 6) + 4

=============================================================================
